---- MODULE Spec2Model ----
(***************************************************************************)
(* Model of update_historia.py: main() copies correct_answers.json and     *)
(* every regular file directly inside images/ from the sibling directory   *)
(* Historia/ into the directory that holds the script.                     *)
(*                                                                         *)
(* The state is the two file trees, the position of main(), the pending    *)
(* items of the glob loop, the console output and the exit status.         *)
(* A file carries its bytes (content) and its owner-write permission bit   *)
(* (writable): shutil.copy2 copies both, and opening an existing file      *)
(* without the write bit for writing raises PermissionError for an         *)
(* unprivileged user.  An uncaught exception ends the process with exit    *)
(* status 1.  File names inside images/ are the numbers 1..MaxNames.       *)
(* Each path holds the kind of node its name denotes: the answers paths    *)
(* are absent or regular files, the images paths are absent or             *)
(* directories, an entry of the source images directory is absent, a       *)
(* regular file or a subdirectory, an entry of the destination images      *)
(* directory is absent or a regular file.                                  *)
(***************************************************************************)
EXTENDS Integers, Sequences, FiniteSets

\* number of distinct entry names in an images directory
MaxNames == 2

Names == 1..MaxNames

\* Paths below a root: 0 is correct_answers.json, n in Names is images/n
Answers == 0

\* File contents.  main() never reads the bytes it copies.  The source file at
\* path p holds bytes of its own, Bytes(p); a destination file at path p holds
\* either those bytes (an up-to-date copy) or other bytes, Stale(p).
Bytes(p) == <<"source", p>>
Stale(p) == <<"stale", p>>

VARIABLES
    src,       \* Historia/ : [root, json, imagesDir, images]
    dst,       \* the script's directory : [json, imagesDir, images]
    pc,        \* position of main()
    todo,      \* items source_images.glob("*") has not yielded yet
    out,       \* lines printed so far
    exitCode,  \* exit status of the process, -1 while it runs
    dst0,      \* history: dst when the current run started
    run,       \* history: 1 in the first run, 2 in the second
    after1,    \* history: dst at the end of the first run
    exit1      \* history: exit status of the first run

vars == <<src, dst, pc, todo, out, exitCode, dst0, run, after1, exit1>>

----------------------------------------------------------------------------
\* File system nodes

Absent == [kind |-> "absent", content |-> <<"none", 0>>, writable |-> FALSE]
SubDir == [kind |-> "dir", content |-> <<"none", 0>>, writable |-> TRUE]
SrcFiles(p) == [kind : {"file"}, content : {Bytes(p)}, writable : BOOLEAN]
DstFiles(p) == [kind : {"file"}, content : {Bytes(p), Stale(p)},
                writable : BOOLEAN]

\* Path.exists()
Exists(node) == node.kind # "absent"

\* Path.is_file()
IsFile(node) == node.kind = "file"

NoEntries == [n \in Names |-> Absent]

\* source_images.glob("*"): every entry of the directory, files and
\* subdirectories alike, not recursive
GlobStar(entries) == {n \in Names : Exists(entries[n])}

\* Variant of Copy2 that keeps an existing destination file
Copy2_KeepExisting(srcFile, dstNode, parentExists) ==
    IF ~parentExists
      THEN [raised |-> "FileNotFoundError", node |-> dstNode]
      ELSE IF IsFile(dstNode)
        THEN [raised |-> "none", node |-> dstNode]
        ELSE [raised |-> "none", node |-> srcFile]

\* shutil.copy2(src, dst): copyfile opens dst for writing, which raises
\* FileNotFoundError when the parent directory is missing and PermissionError
\* when dst exists without the write bit; otherwise dst gets the bytes of src
\* and copystat gives it the permission bits of src.
Copy2(srcFile, dstNode, parentExists) ==
    IF ~parentExists
      THEN [raised |-> "FileNotFoundError", node |-> dstNode]
      ELSE IF IsFile(dstNode) /\ ~dstNode.writable
        THEN [raised |-> "PermissionError", node |-> dstNode]
        ELSE [raised |-> "none", node |-> srcFile]

Line(msg, item) == [msg |-> msg, item |-> item]

----------------------------------------------------------------------------
\* Initial states: every source tree and every destination tree

SrcEntries ==
    {e \in [Names -> UNION {SrcFiles(n) : n \in Names} \cup {Absent, SubDir}] :
        \A n \in Names : e[n] \in SrcFiles(n) \cup {Absent, SubDir}}

DstEntries ==
    {e \in [Names -> UNION {DstFiles(n) : n \in Names} \cup {Absent}] :
        \A n \in Names : e[n] \in DstFiles(n) \cup {Absent}}

SrcTrees ==
    {[root |-> FALSE, json |-> Absent, imagesDir |-> FALSE, images |-> NoEntries]}
    \cup
    {[root |-> TRUE, json |-> j, imagesDir |-> FALSE, images |-> NoEntries] :
        j \in SrcFiles(Answers) \cup {Absent}}
    \cup
    [root : {TRUE}, json : SrcFiles(Answers) \cup {Absent}, imagesDir : {TRUE},
     images : SrcEntries]

DstTrees ==
    {[json |-> j, imagesDir |-> FALSE, images |-> NoEntries] :
        j \in DstFiles(Answers) \cup {Absent}}
    \cup
    [json : DstFiles(Answers) \cup {Absent}, imagesDir : {TRUE},
     images : DstEntries]

Init ==
    /\ src \in SrcTrees
    /\ dst \in DstTrees
    /\ dst0 = dst
    /\ pc = "start"
    /\ todo = {}
    /\ out = <<>>
    /\ exitCode = -1
    /\ run = 1
    /\ after1 = dst
    /\ exit1 = -1

history == <<dst0, run, after1, exit1>>

----------------------------------------------------------------------------
\* main()

\* Variant of CheckRoot that reports the missing root and carries on
CheckRoot_NoExit ==
    /\ pc = "start"
    /\ IF ~src.root
         THEN out' = Append(out, Line("Error", 0))
         ELSE UNCHANGED out
    /\ pc' = "answers"
    /\ UNCHANGED <<src, dst, todo, exitCode, history>>

\* lines 24-26: the source root must exist
CheckRoot ==
    /\ pc = "start"
    /\ IF ~src.root
         THEN /\ out' = Append(out, Line("Error", 0))
              /\ exitCode' = 1
              /\ pc' = "exited"
         ELSE /\ pc' = "answers"
              /\ UNCHANGED <<out, exitCode>>
    /\ UNCHANGED <<src, dst, todo, history>>

\* Variant of UpdateAnswers in which a missing answers file is fatal
UpdateAnswers_FatalMissing ==
    /\ pc = "answers"
    /\ IF ~Exists(src.json)
         THEN /\ out' = Append(out, Line("Warning: file", 0))
              /\ exitCode' = 1
              /\ pc' = "exited"
              /\ UNCHANGED dst
         ELSE LET r == Copy2(src.json, dst.json, TRUE) IN
              IF r.raised = "none"
                THEN /\ dst' = [dst EXCEPT !.json = r.node]
                     /\ out' = Append(out, Line("Copying", 0))
                     /\ pc' = "images"
                     /\ UNCHANGED exitCode
                ELSE /\ out' = Append(Append(out, Line("Copying", 0)),
                                      Line(r.raised, 0))
                     /\ exitCode' = 1
                     /\ pc' = "exited"
                     /\ UNCHANGED dst
    /\ UNCHANGED <<src, todo, history>>

\* Variant of UpdateAnswers that mirrors a missing answers file by removing
\* the destination file
UpdateAnswers_Mirror ==
    /\ pc = "answers"
    /\ IF ~Exists(src.json)
         THEN /\ out' = Append(out, Line("Warning: file", 0))
              /\ dst' = [dst EXCEPT !.json = Absent]
              /\ pc' = "images"
              /\ UNCHANGED exitCode
         ELSE LET r == Copy2(src.json, dst.json, TRUE) IN
              IF r.raised = "none"
                THEN /\ dst' = [dst EXCEPT !.json = r.node]
                     /\ out' = Append(out, Line("Copying", 0))
                     /\ pc' = "images"
                     /\ UNCHANGED exitCode
                ELSE /\ out' = Append(Append(out, Line("Copying", 0)),
                                      Line(r.raised, 0))
                     /\ exitCode' = 1
                     /\ pc' = "exited"
                     /\ UNCHANGED dst
    /\ UNCHANGED <<src, todo, history>>

\* Variant of UpdateAnswers that returns from main() after the warning, so
\* that a missing answers file also skips the images step
UpdateAnswers_SkipRest ==
    /\ pc = "answers"
    /\ IF ~Exists(src.json)
         THEN /\ out' = Append(out, Line("Warning: file", 0))
              /\ pc' = "complete"
              /\ UNCHANGED <<dst, exitCode>>
         ELSE LET r == Copy2(src.json, dst.json, TRUE) IN
              IF r.raised = "none"
                THEN /\ dst' = [dst EXCEPT !.json = r.node]
                     /\ out' = Append(out, Line("Copying", 0))
                     /\ pc' = "images"
                     /\ UNCHANGED exitCode
                ELSE /\ out' = Append(Append(out, Line("Copying", 0)),
                                      Line(r.raised, 0))
                     /\ exitCode' = 1
                     /\ pc' = "exited"
                     /\ UNCHANGED dst
    /\ UNCHANGED <<src, todo, history>>

\* lines 29-36: copy correct_answers.json, or warn and skip
UpdateAnswers ==
    /\ pc = "answers"
    /\ IF ~Exists(src.json)
         THEN /\ out' = Append(out, Line("Warning: file", 0))
              /\ pc' = "images"
              /\ UNCHANGED <<dst, exitCode>>
         ELSE LET r == Copy2(src.json, dst.json, TRUE) IN
              IF r.raised = "none"
                THEN /\ dst' = [dst EXCEPT !.json = r.node]
                     /\ out' = Append(out, Line("Copying", 0))
                     /\ pc' = "images"
                     /\ UNCHANGED exitCode
                ELSE /\ out' = Append(Append(out, Line("Copying", 0)),
                                      Line(r.raised, 0))
                     /\ exitCode' = 1
                     /\ pc' = "exited"
                     /\ UNCHANGED dst
    /\ UNCHANGED <<src, todo, history>>

\* lines 39-43: the source images directory, or warn and skip
CheckImages ==
    /\ pc = "images"
    /\ IF ~src.imagesDir
         THEN /\ out' = Append(out, Line("Warning: directory", 0))
              /\ pc' = "complete"
         ELSE /\ pc' = "mkdir"
              /\ UNCHANGED out
    /\ UNCHANGED <<src, dst, todo, exitCode, history>>

\* Variant of CreateDestDir that never creates the directory
CreateDestDir_NoMkdir ==
    /\ pc = "mkdir"
    /\ todo' = GlobStar(src.images)
    /\ pc' = "loop"
    /\ UNCHANGED <<src, dst, out, exitCode, history>>

\* Variant of CreateDestDir that starts from an empty destination directory
CreateDestDir_Fresh ==
    /\ pc = "mkdir"
    /\ dst' = [dst EXCEPT !.imagesDir = TRUE, !.images = NoEntries]
    /\ out' = Append(out, Line("Creating", 0))
    /\ todo' = GlobStar(src.images)
    /\ pc' = "loop"
    /\ UNCHANGED <<src, exitCode, history>>

\* lines 46-48, 51: create the destination directory if it is missing, then
\* start the listing of the source directory
CreateDestDir ==
    /\ pc = "mkdir"
    /\ IF ~dst.imagesDir
         THEN /\ dst' = [dst EXCEPT !.imagesDir = TRUE]
              /\ out' = Append(out, Line("Creating", 0))
         ELSE UNCHANGED <<dst, out>>
    /\ todo' = GlobStar(src.images)
    /\ pc' = "loop"
    /\ UNCHANGED <<src, exitCode, history>>

\* Variant of CopyItem without the is_file() test: a subdirectory is
\* transferred like a file
CopyItem_NoFileTest ==
    /\ pc = "loop"
    /\ \E item \in todo :
         /\ todo' = todo \ {item}
         /\ LET r == Copy2(src.images[item], dst.images[item],
                           dst.imagesDir) IN
            IF r.raised = "none"
              THEN /\ dst' = [dst EXCEPT !.images[item] = r.node]
                   /\ out' = Append(out, Line("Copying", item))
                   /\ UNCHANGED <<pc, exitCode>>
              ELSE /\ out' = Append(Append(out, Line("Copying", item)),
                                    Line(r.raised, item))
                   /\ exitCode' = 1
                   /\ pc' = "exited"
                   /\ UNCHANGED dst
    /\ UNCHANGED <<src, history>>

\* Variant of CopyItem that moves the file out of the source directory
CopyItem_Move ==
    /\ pc = "loop"
    /\ \E item \in todo :
         /\ todo' = todo \ {item}
         /\ IF IsFile(src.images[item])
              THEN LET r == Copy2(src.images[item], dst.images[item],
                                  dst.imagesDir) IN
                   IF r.raised = "none"
                     THEN /\ dst' = [dst EXCEPT !.images[item] = r.node]
                          /\ src' = [src EXCEPT !.images[item] = Absent]
                          /\ out' = Append(out, Line("Copying", item))
                          /\ UNCHANGED <<pc, exitCode>>
                     ELSE /\ out' = Append(Append(out, Line("Copying", item)),
                                           Line(r.raised, item))
                          /\ exitCode' = 1
                          /\ pc' = "exited"
                          /\ UNCHANGED <<src, dst>>
              ELSE UNCHANGED <<src, dst, out, pc, exitCode>>
    /\ UNCHANGED history

\* lines 51-55: one iteration of the loop; the listing order is arbitrary
CopyItem ==
    /\ pc = "loop"
    /\ \E item \in todo :
         /\ todo' = todo \ {item}
         /\ IF IsFile(src.images[item])
              THEN LET r == Copy2(src.images[item], dst.images[item],
                                  dst.imagesDir) IN
                   IF r.raised = "none"
                     THEN /\ dst' = [dst EXCEPT !.images[item] = r.node]
                          /\ out' = Append(out, Line("Copying", item))
                          /\ UNCHANGED <<pc, exitCode>>
                     ELSE /\ out' = Append(Append(out, Line("Copying", item)),
                                           Line(r.raised, item))
                          /\ exitCode' = 1
                          /\ pc' = "exited"
                          /\ UNCHANGED dst
              ELSE UNCHANGED <<dst, out, pc, exitCode>>
    /\ UNCHANGED <<src, history>>

\* line 51: the listing is exhausted
EndLoop ==
    /\ pc = "loop"
    /\ todo = {}
    /\ pc' = "complete"
    /\ UNCHANGED <<src, dst, todo, out, exitCode, history>>

\* line 57, then the normal end of the process
Complete ==
    /\ pc = "complete"
    /\ out' = Append(out, Line("Update completed successfully!", 0))
    /\ exitCode' = 0
    /\ pc' = "exited"
    /\ UNCHANGED <<src, dst, todo, history>>

\* the operator starts the tool again, the source being unchanged
Rerun ==
    /\ pc = "exited"
    /\ run = 1
    /\ run' = 2
    /\ after1' = dst
    /\ exit1' = exitCode
    /\ dst0' = dst
    /\ pc' = "start"
    /\ todo' = {}
    /\ out' = <<>>
    /\ exitCode' = -1
    /\ UNCHANGED <<src, dst>>

Next ==
    \/ CheckRoot
    \/ UpdateAnswers
    \/ CheckImages
    \/ CreateDestDir
    \/ CopyItem
    \/ EndLoop
    \/ Complete

Spec == Init /\ [][Next]_vars

NextTwice == Next \/ Rerun

SpecTwice == Init /\ [][NextTwice]_vars

----------------------------------------------------------------------------
\* Vocabulary of the properties

\* the answers copy of this run meets an existing destination file without
\* the write bit
AnswersBlocked ==
    /\ src.json.kind = "file"
    /\ dst0.json.kind = "file"
    /\ ~dst0.json.writable

\* some image copy of this run meets an existing destination file without
\* the write bit
ImageBlocked ==
    /\ src.imagesDir
    /\ \E n \in Names : /\ src.images[n].kind = "file"
                        /\ dst0.images[n].kind = "file"
                        /\ ~dst0.images[n].writable

\* the destination images directory after a run whose images step ran to
\* its end: a function of the source images and of the destination images
\* before the run only
ExpectedImages ==
    [n \in Names |-> IF src.images[n].kind = "file"
                       THEN src.images[n]
                       ELSE dst0.images[n]]

Printed(msg) == \E i \in 1..Len(out) : out[i].msg = msg

----------------------------------------------------------------------------
\* C1: when the source root does not exist, main() goes from its start
\* straight to exit status 1, and the destination (answers file, images
\* directory and its files) stays as it was before the run; in particular
\* the images directory is not created.
C1_MissingRootExitsWithoutCopy ==
    ~src.root =>
        /\ pc \in {"start", "exited"}
        /\ dst = dst0
        /\ pc = "exited" => exitCode = 1

C1_Witness ==
    /\ pc = "exited"
    /\ ~src.root
    /\ exitCode = 1
    /\ dst.json.kind = "file"
    /\ ~dst.imagesDir

\* C2 as stated: every run in which the source root exists ends with exit
\* status 0.
C2_ExistingRootAlwaysExitsZero ==
    (pc = "exited" /\ src.root) => exitCode = 0

\* C2 amended: the run ends with a nonzero exit status only if the source
\* root is absent or a copy raises; a run with an existing root in which no
\* copy raises ends with exit status 0, whatever is missing at the source.
\* A copy raises exactly when its destination exists without the write bit.
C2_NonzeroOnlyMissingRootOrCopyFailure ==
    pc = "exited" =>
        /\ exitCode \in {0, 1}
        /\ exitCode = 1 <=> (~src.root \/ AnswersBlocked \/ ImageBlocked)
        /\ exitCode = 1 /\ src.root =>
               out[Len(out)].msg \in {"PermissionError", "FileNotFoundError"}

C2_Witness ==
    /\ pc = "exited"
    /\ src.root
    /\ exitCode = 0
    /\ ~Exists(src.json)
    /\ ~src.imagesDir
    /\ dst0.json.kind = "file"
    /\ ~dst0.json.writable

\* C3: after a run that completes with the answers file present at the
\* source, the destination answers file exists and has the content of the
\* source file, whatever was there before.
C3_AnswersCopied ==
    (pc = "exited" /\ exitCode = 0 /\ src.root /\ src.json.kind = "file") =>
        /\ dst.json.kind = "file"
        /\ dst.json.content = src.json.content

C3_Witness ==
    /\ pc = "exited"
    /\ exitCode = 0
    /\ src.json.kind = "file"
    /\ dst0.json.kind = "file"
    /\ dst0.json.content # src.json.content
    /\ dst.json.content = src.json.content

\* C4 as stated: with the root present and the answers file absent the run
\* exits with status 0 and the destination answers file is untouched.
C4_MissingAnswersExitsZeroUntouched ==
    (pc = "exited" /\ src.root /\ src.json.kind = "absent") =>
        /\ exitCode = 0
        /\ dst.json = dst0.json

\* C4 amended: with the root present and the answers file absent, the
\* destination answers file is never created, modified or deleted, and the
\* run exits with status 0 unless a copy of the images step raises.
C4_MissingAnswersUntouched ==
    (src.root /\ src.json.kind = "absent") =>
        /\ dst.json = dst0.json
        /\ pc = "exited" => (exitCode = 0 <=> ~ImageBlocked)

C4_Witness ==
    /\ pc = "exited"
    /\ src.root
    /\ src.json.kind = "absent"
    /\ exitCode = 0
    /\ dst.json.kind = "file"
    /\ dst.images # dst0.images

\* C5: after a run that completes with the source images directory present,
\* every regular file directly inside it has a same-named destination file
\* with the same content, and nothing is copied for a subdirectory.
C5_ImagesCopiedFlat ==
    (pc = "exited" /\ exitCode = 0 /\ src.imagesDir) =>
        /\ dst.imagesDir
        /\ \A n \in Names :
             /\ src.images[n].kind = "file" =>
                    /\ dst.images[n].kind = "file"
                    /\ dst.images[n].content = src.images[n].content
             /\ src.images[n].kind = "dir" => dst.images[n] = dst0.images[n]

C5_Witness ==
    /\ pc = "exited"
    /\ exitCode = 0
    /\ \E n, m \in Names :
         /\ src.images[n].kind = "file"
         /\ dst0.images[n].kind = "file"
         /\ dst0.images[n].content # src.images[n].content
         /\ dst.images[n].content = src.images[n].content
         /\ src.images[m].kind = "dir"
         /\ dst.images[m].kind = "absent"

\* C6 as stated: the second of two runs over an unchanged source leaves the
\* destination as the first run left it and ends with the same exit status.
C6_SecondRunSameStateAndExit ==
    (run = 2 /\ pc = "exited") =>
        /\ dst = after1
        /\ exitCode = exit1

\* C7: the destination images directory exists whenever the loop runs, so it
\* is created before any file is copied into it, also when the source
\* directory holds no regular file; no step changes a destination image in a
\* state where the directory is missing.
C7_DirBeforeCopies ==
    /\ [](/\ pc \in {"loop", "complete"} /\ src.imagesDir => dst.imagesDir
          /\ \A n \in Names : dst.images[n].kind # "absent" => dst.imagesDir)
    /\ [][/\ dst'.images # dst.images => dst.imagesDir
          /\ (pc = "loop" /\ todo' # todo) => dst.imagesDir]_vars

C7_Witness ==
    /\ pc = "exited"
    /\ exitCode = 0
    /\ ~dst0.imagesDir
    /\ dst.imagesDir
    /\ \E n \in Names : dst.images[n].kind = "file"

\* C8: a destination image whose name is not that of a regular file of the
\* source images directory keeps its content in every state of a run, and no
\* destination file or directory is ever removed.
C8_NoDeletion ==
    /\ \A n \in Names :
         /\ (dst0.images[n].kind = "file" /\ src.images[n].kind # "file") =>
                dst.images[n] = dst0.images[n]
         /\ dst0.images[n].kind # "absent" => dst.images[n].kind # "absent"
    /\ dst0.json.kind # "absent" => dst.json.kind # "absent"
    /\ dst0.imagesDir => dst.imagesDir

C8_Witness ==
    /\ pc = "exited"
    /\ exitCode = 0
    /\ src.imagesDir
    /\ \E n, m \in Names :
         /\ src.images[n].kind = "absent"
         /\ dst.images[n].kind = "file"
         /\ src.images[m].kind = "file"
         /\ dst.images[m] # dst0.images[m]

\* C9 as stated: with the root present the images step has its effect also
\* when the answers step failed.
C9_ImagesStepAfterAnyAnswersOutcome ==
    (pc = "exited" /\ src.root /\ src.imagesDir /\ ~ImageBlocked) =>
        /\ dst.imagesDir
        /\ dst.images = ExpectedImages

\* C9 amended: with the root present, the images step is attempted and has
\* the same effect on the destination images directory whether the answers
\* step copied or was skipped for a missing answers file; a failed answers
\* copy ends the run with status 1 before the images step, which then leaves
\* the images directory as it was; a missing source images directory is
\* skipped with a warning and the answers copy stays in place.
C9_IndependentSteps ==
    (pc = "exited" /\ src.root) =>
        /\ (~AnswersBlocked /\ ~ImageBlocked) =>
               /\ dst.imagesDir = (dst0.imagesDir \/ src.imagesDir)
               /\ dst.images = ExpectedImages
        /\ AnswersBlocked =>
               /\ exitCode = 1
               /\ dst.imagesDir = dst0.imagesDir
               /\ dst.images = dst0.images
        /\ (~AnswersBlocked /\ ~src.imagesDir) =>
               /\ Printed("Warning: directory")
               /\ exitCode = 0
               /\ src.json.kind = "file" => dst.json = src.json

C9_Witness ==
    /\ pc = "exited"
    /\ src.root
    /\ src.json.kind = "absent"
    /\ Printed("Warning: file")
    /\ dst.images # dst0.images
    /\ dst.images = ExpectedImages

\* C10: no step changes the source tree, and a step changes a file of the
\* destination images directory only under the name of a regular file of the
\* source images directory.
C10_OnlyDestinationWritten ==
    [][/\ src' = src
       /\ \A n \in Names :
            dst'.images[n] # dst.images[n] => src.images[n].kind = "file"]_vars

C10_Witness ==
    /\ pc = "exited"
    /\ dst.json # dst0.json
    /\ dst.imagesDir # dst0.imagesDir
    /\ \E n \in Names : dst.images[n] # dst0.images[n]

====
